---- MODULE Spec2Model ----
(***************************************************************************)
(* A model of src/src/nmatch_cpp.cpp: the tokenizer (tokenize_name), the   *)
(* Optimal String Alignment distance (osa_distance), the token classifier  *)
(* (match_eval_token_cpp) and the batch matcher (nmatch_cpp_tfreq).        *)
(*                                                                         *)
(* A std::string is a sequence of one-character strings; a std::vector is  *)
(* a sequence (index j of the code is index j+1 here); an int is a 32-bit  *)
(* two's-complement integer.                                               *)
(***************************************************************************)
EXTENDS Integers, Sequences, FiniteSets, TLC

VARIABLES
  \* tokenize_name, one call
  name, tk_nchar_min, tk_pos, tokens, current_token, tk_pc,
  \* osa_distance, one call
  s1, s2, osa_i, prev_prev_row, prev_row, curr_row, osa_pc, osa_ret,
  \* nmatch_cpp_tfreq, one call: its arguments,
  x, y, nchar_min, token, token_freq,
  \* its position, loop index, hash map and output matrix,
  pc, i, token_map, use_frequency_lookup, result,
  \* and the locals of the current pair
  tokens_x, tokens_y, min_distance, n_match, indices,
  best_tokens_x, best_tokens_y, best_distances, frequencies

tokVars == <<name, tk_nchar_min, tk_pos, tokens, current_token, tk_pc>>
osaVars == <<s1, s2, osa_i, prev_prev_row, prev_row, curr_row, osa_pc, osa_ret>>
argVars == <<x, y, nchar_min, token, token_freq>>
callVars == <<pc, i, token_map, use_frequency_lookup, result>>
pairVars == <<tokens_x, tokens_y, min_distance, n_match, indices,
              best_tokens_x, best_tokens_y, best_distances, frequencies>>
batchVars == <<argVars, callVars, pairVars>>
vars == <<tokVars, osaVars, batchVars>>

(***************************************************************************)
(* Bounds of the explored inputs.                                          *)
(***************************************************************************)
MaxNameLen == 3
MaxMinLen == 2
MaxStrLen == 3
MaxTokens == 3
MaxPairs == 2
MaxVocab == 2

(***************************************************************************)
(* Constants of the program.                                               *)
(***************************************************************************)
INT_MAX == 2147483647
INT_MIN == (0 - INT_MAX) - 1
\* R's NA_INTEGER is INT_MIN.
NA_INTEGER == INT_MIN
\* min_distance of a pair with an empty token sequence.
Incomparable == 9999

\* All sequences over S of length 0..n.
SeqsUpTo(S, n) == UNION {[1..k -> S] : k \in 0..n}

Min2(a, b) == IF a <= b THEN a ELSE b
Max2(a, b) == IF a >= b THEN a ELSE b

(***************************************************************************)
(* tokenize_name                                                           *)
(***************************************************************************)
Delimiters == {" ", "\t", "\n", "\r", "-", "_"}

IsDelimiter(c) == c \in Delimiters

\* current_token.length() >= nchar_min compares a size_t with an int: the int
\* is converted to size_t, so a negative nchar_min becomes nchar_min + 2^64,
\* which no string length reaches.
LengthAtLeast(len, n) == IF n < 0 THEN FALSE ELSE len >= n

\* !current_token.empty() && current_token.length() >= nchar_min
KeepsToken(tok, n) == Len(tok) # 0 /\ LengthAtLeast(Len(tok), n)

\* One iteration of the loop over the characters of name.
TokenizeChar(st, c, n) ==
  IF IsDelimiter(c)
  THEN [tokens |-> IF KeepsToken(st.current_token, n)
                   THEN Append(st.tokens, st.current_token)
                   ELSE st.tokens,
        current_token |-> <<>>]
  ELSE [tokens |-> st.tokens,
        current_token |-> Append(st.current_token, c)]

\* The last token, after the loop.
TokenizeLast(st, n) ==
  IF KeepsToken(st.current_token, n)
  THEN Append(st.tokens, st.current_token)
  ELSE st.tokens

RECURSIVE TokenizeFrom(_, _, _, _)
TokenizeFrom(str, n, p, st) ==
  IF p > Len(str) THEN st
  ELSE TokenizeFrom(str, n, p + 1, TokenizeChar(st, str[p], n))

tokenize_name(str, n) ==
  TokenizeLast(TokenizeFrom(str, n, 1, [tokens |-> <<>>, current_token |-> <<>>]), n)

(***************************************************************************)
(* osa_distance                                                            *)
(***************************************************************************)
\* A std::vector<int>(n + 1): value-initialised to zeros.
ZeroRow(n) == [j \in 1..(n + 1) |-> 0]

\* prev_row[j] = j for j = 0..n
FirstRow(n) == [j \in 1..(n + 1) |-> j - 1]

Min3(a, b, c) == Min2(a, Min2(b, c))

\* int cost = (s1[i-1] == s2[j-1]) ? 0 : 1
SubstCost(a, b, ri, j) == IF a[ri] = b[j] THEN 0 ELSE 1

\* A variant of OsaCell that leaves out the deletion candidate.
OsaCell_NoDeletion(a, b, ri, j, pprow, prow, crow) ==
  LET cost == IF a[ri] = b[j] THEN 0 ELSE 1
      std  == Min2(crow[j] + 1, prow[j] + cost)
  IN  IF ri > 1 /\ j > 1 /\ a[ri] = b[j - 1] /\ a[ri - 1] = b[j]
      THEN Min2(std, pprow[j - 1] + cost)
      ELSE std

\* curr_row[j] for one j of the inner loop (ri, j are the code's 1-based i, j).
OsaCell(a, b, ri, j, pprow, prow, crow) ==
  LET cost == SubstCost(a, b, ri, j)
      std  == Min3(prow[j + 1] + 1, crow[j] + 1, prow[j] + cost)
  IN  IF ri > 1 /\ j > 1 /\ a[ri] = b[j - 1] /\ a[ri - 1] = b[j]
      THEN Min2(std, pprow[j - 1] + cost)
      ELSE std

RECURSIVE OsaInner(_, _, _, _, _, _, _)
OsaInner(a, b, ri, j, pprow, prow, crow) ==
  IF j > Len(b) THEN crow
  ELSE OsaInner(a, b, ri, j + 1, pprow, prow,
                [crow EXCEPT ![j + 1] = OsaCell(a, b, ri, j, pprow, prow, crow)])

\* A variant of OsaOuter whose rotation forgets prev_prev_row.swap(prev_row).
OsaOuter_NoFirstSwap(a, b, ri, rows) ==
  LET filled == OsaInner(a, b, ri, 1, rows.prev_prev_row, rows.prev_row,
                         [rows.curr_row EXCEPT ![1] = ri])
  IN  [prev_prev_row |-> rows.prev_prev_row,
       prev_row      |-> filled,
       curr_row      |-> rows.prev_row]

\* One iteration of the outer loop: fill curr_row, then rotate the rows
\* (prev_prev_row.swap(prev_row); prev_row.swap(curr_row)).
OsaOuter(a, b, ri, rows) ==
  LET filled == OsaInner(a, b, ri, 1, rows.prev_prev_row, rows.prev_row,
                         [rows.curr_row EXCEPT ![1] = ri])
  IN  [prev_prev_row |-> rows.prev_row,
       prev_row      |-> filled,
       curr_row      |-> rows.prev_prev_row]

OsaRows(n) ==
  [prev_prev_row |-> ZeroRow(n), prev_row |-> FirstRow(n), curr_row |-> ZeroRow(n)]

RECURSIVE OsaLoop(_, _, _, _)
OsaLoop(a, b, ri, rows) ==
  IF ri > Len(a) THEN rows ELSE OsaLoop(a, b, ri + 1, OsaOuter(a, b, ri, rows))

osa_distance(a, b) ==
  IF Len(a) = 0 THEN Len(b)
  ELSE IF Len(b) = 0 THEN Len(a)
  ELSE OsaLoop(a, b, 1, OsaRows(Len(b))).prev_row[Len(b) + 1]

(***************************************************************************)
(* match_eval_token_cpp                                                    *)
(***************************************************************************)
\* A variant of match_eval_token_cpp with dist < 1 for tokens of four characters.
match_eval_token_strict(nchar_x, nchar_y, dist) ==
  LET nchar_max == Max2(nchar_x, nchar_y)
  IN  \/ (nchar_max <= 3 /\ dist = 0)
      \/ (nchar_max = 4 /\ dist < 1)
      \/ (nchar_max >= 5 /\ nchar_max <= 8 /\ dist <= 2)
      \/ (nchar_max >= 9 /\ dist <= 3)

match_eval_token_cpp(nchar_x, nchar_y, dist) ==
  LET nchar_max == Max2(nchar_x, nchar_y)
  IN  \/ (nchar_max <= 3 /\ dist = 0)
      \/ (nchar_max = 4 /\ dist <= 1)
      \/ (nchar_max >= 5 /\ nchar_max <= 8 /\ dist <= 2)
      \/ (nchar_max >= 9 /\ dist <= 3)

(***************************************************************************)
(* nmatch_cpp_tfreq: the helpers of one pair                               *)
(***************************************************************************)
\* a + b of two ints leaves the range of int: the behaviour is undefined.
SumOverflows(a, b) ==
  \/ (a > 0 /\ b > 0 /\ a > INT_MAX - b)
  \/ (a < 0 /\ b < 0 /\ a < INT_MIN - b)

\* int + int as the add instruction computes it: exact within the range of int,
\* and wrapped at 32 bits beyond it.
Add32(a, b) ==
  IF a > 0 /\ b > 0 /\ a > INT_MAX - b THEN (a + INT_MIN) + (b + INT_MIN)
  ELSE IF a < 0 /\ b < 0 /\ a < INT_MIN - b THEN (a - INT_MIN) + (b - INT_MIN)
  ELSE a + b

\* std::iota(indices.begin(), indices.end(), 0) on a vector of k ints
Iota(k) == [j \in 1..k |-> j - 1]

Reverse(p) == [j \in 1..Len(p) |-> p[Len(p) + 1 - j]]

SetMax(S) == CHOOSE v \in S : \A w \in S : w <= v

\* std::next_permutation: the next sequence in lexicographic order and true, or
\* the first one (sorted) and false when p is the last.
NextPermutation(p) ==
  LET n == Len(p)
      ascents == {k \in 1..(n - 1) : p[k] < p[k + 1]}
  IN  IF ascents = {}
      THEN [more |-> FALSE, indices |-> Reverse(p)]
      ELSE LET k == SetMax(ascents)
               l == SetMax({q \in (k + 1)..n : p[q] > p[k]})
               swapped == [p EXCEPT ![k] = p[l], ![l] = p[k]]
           IN  [more |-> TRUE,
                indices |-> SubSeq(swapped, 1, k) \o Reverse(SubSeq(swapped, k + 1, n))]

\* The tokens compared at position j (0-based) under the permutation ind: the
\* shorter sequence keeps its order, the longer one is permuted (y when equal).
\* A variant of PairX that forgets to permute x when x is the longer sequence.
PairX_Unpermuted(tx, ty, ind, j) == tx[j + 1]

PairX(tx, ty, ind, j) ==
  IF Len(tx) <= Len(ty) THEN tx[j + 1] ELSE tx[ind[j + 1] + 1]

PairY(tx, ty, ind, j) ==
  IF Len(tx) <= Len(ty) THEN ty[ind[j + 1] + 1] ELSE ty[j + 1]

\* The guard of the accumulation loop: j < min_tokens && distance < min_distance
KeepsAdding(distance, mind) == distance < mind

\* if (distance < min_distance)
Improves(distance, mind) == distance < mind

\* A variant of StopsSearch that also stops at a total of 1.
StopsSearch_AtOne(mind) == mind <= 1

\* if (min_distance == 0) break
StopsSearch(mind) == mind = 0

\* The accumulation loop of one candidate permutation.
RECURSIVE Accumulate(_, _, _, _, _, _, _)
Accumulate(tx, ty, ind, mind, j, distance, token_distances) ==
  IF j < Min2(Len(tx), Len(ty)) /\ KeepsAdding(distance, mind)
  THEN LET token_dist == osa_distance(PairX(tx, ty, ind, j), PairY(tx, ty, ind, j))
       IN  Accumulate(tx, ty, ind, mind, j + 1, distance + token_dist,
                      [token_distances EXCEPT ![j + 1] = token_dist])
  ELSE [distance |-> distance, token_distances |-> token_distances]

\* One iteration of the do-while loop over the permutations.
SearchStep(tx, ty, st) ==
  LET min_tokens == Min2(Len(tx), Len(ty))
      ev == Accumulate(tx, ty, st.indices, st.min_distance, 0, 0,
                       [j \in 1..min_tokens |-> 0])
      better == Improves(ev.distance, st.min_distance)
      stop == better /\ StopsSearch(ev.distance)
      np == NextPermutation(st.indices)
  IN  [indices        |-> IF stop THEN st.indices ELSE np.indices,
       min_distance   |-> IF better THEN ev.distance ELSE st.min_distance,
       best_tokens_x  |-> IF better
                          THEN [j \in 1..min_tokens |-> PairX(tx, ty, st.indices, j - 1)]
                          ELSE st.best_tokens_x,
       best_tokens_y  |-> IF better
                          THEN [j \in 1..min_tokens |-> PairY(tx, ty, st.indices, j - 1)]
                          ELSE st.best_tokens_y,
       best_distances |-> IF better THEN ev.token_distances ELSE st.best_distances,
       searching      |-> ~stop /\ np.more]

\* The state of the search before the first permutation.
SearchStart(tx, ty) ==
  [indices        |-> Iota(Max2(Len(tx), Len(ty))),
   min_distance   |-> INT_MAX,
   best_tokens_x  |-> <<>>,
   best_tokens_y  |-> <<>>,
   best_distances |-> <<>>,
   searching      |-> TRUE]

RECURSIVE SearchFrom(_, _, _)
SearchFrom(tx, ty, st) ==
  IF st.searching THEN SearchFrom(tx, ty, SearchStep(tx, ty, st)) ELSE st

\* The number of aligned pairs that match_eval_token_cpp accepts.
CountMatches(bx, by, bd) ==
  Cardinality({j \in 1..Len(bx) : match_eval_token_cpp(Len(bx[j]), Len(by[j]), bd[j])})

\* token_map[token[k]] = token_freq[k] for k in order: a later entry of a key
\* overwrites an earlier one.
\* A variant of MapPut that keeps the first value of a key (as insert does).
MapPut_KeepFirst(m, k, v) ==
  IF k \in DOMAIN m THEN m ELSE [kk \in (DOMAIN m) \cup {k} |-> IF kk = k THEN v ELSE m[kk]]

MapPut(m, k, v) == [kk \in (DOMAIN m) \cup {k} |-> IF kk = k THEN v ELSE m[kk]]

RECURSIVE BuildTokenMap(_, _, _, _)
BuildTokenMap(keys, values, k, m) ==
  IF k > Len(keys) THEN m
  ELSE BuildTokenMap(keys, values, k + 1, MapPut(m, keys[k], values[k]))

\* The frequency of one aligned pair: the sum when both tokens are found.
PairFrequency(m, tx, ty) ==
  IF tx \in DOMAIN m /\ ty \in DOMAIN m THEN Add32(m[tx], m[ty]) ELSE NA_INTEGER

\* The three frequency slots of a pair.
LookupFrequencies(use, m, bx, by) ==
  [p \in 1..3 |->
     IF use /\ Len(bx) # 0 /\ p <= Min2(3, Len(bx))
     THEN PairFrequency(m, bx[p], by[p])
     ELSE NA_INTEGER]

\* Some slot of the pair is a sum that overflows.
LookupOverflows(use, m, bx, by) ==
  /\ use
  /\ \E p \in 1..Min2(3, Len(bx)) :
       /\ bx[p] \in DOMAIN m /\ by[p] \in DOMAIN m
       /\ SumOverflows(m[bx[p]], m[by[p]])

\* What the frequency lookup of a pair can do.  Without an overflow it fills
\* the slots and goes on.  The overflow of a signed sum is undefined: a build
\* that wraps fills the slot with the wrapped sum and goes on, a build that
\* traps on overflow ends the call there.
LookupOutcomes(use, m, bx, by) ==
  {[frequencies |-> LookupFrequencies(use, m, bx, by), pc |-> "store"]}
    \cup (IF LookupOverflows(use, m, bx, by)
          THEN {[frequencies |-> [p \in 1..3 |-> NA_INTEGER], pc |-> "trapped"]}
          ELSE {})

\* One row of the output matrix.
Row(kx, ky, nm, dist, fr) ==
  [k_x |-> kx, k_y |-> ky, k_align |-> Min2(kx, ky), n_match |-> nm,
   dist_total |-> dist, freq1 |-> fr[1], freq2 |-> fr[2], freq3 |-> fr[3]]

\* IntegerMatrix result(n, 8): n rows of zeros.
ZeroRowOfResult == Row(0, 0, 0, 0, <<0, 0, 0>>)

\* The row the loop body computes for one pair of names.
PairRow(xs, ys, n, use, m) ==
  LET tx == tokenize_name(xs, n)
      ty == tokenize_name(ys, n)
  IN  IF Len(tx) = 0 \/ Len(ty) = 0
      THEN Row(Len(tx), Len(ty), 0, Incomparable, LookupFrequencies(use, m, <<>>, <<>>))
      ELSE LET st == SearchFrom(tx, ty, SearchStart(tx, ty))
           IN  Row(Len(tx), Len(ty),
                   CountMatches(st.best_tokens_x, st.best_tokens_y, st.best_distances),
                   st.min_distance,
                   LookupFrequencies(use, m, st.best_tokens_x, st.best_tokens_y))

(***************************************************************************)
(* One call of tokenize_name, a character at a time.                       *)
(***************************************************************************)
TokChars == {"a", "b"} \cup Delimiters
TokNames == SeqsUpTo(TokChars, MaxNameLen)
TokMinLens == (0 - 1)..MaxMinLen

IdleTok ==
  /\ name = <<>> /\ tk_nchar_min = 0 /\ tk_pos = 0
  /\ tokens = <<>> /\ current_token = <<>> /\ tk_pc = "idle"

IdleOsa ==
  /\ s1 = <<>> /\ s2 = <<>> /\ osa_i = 0
  /\ prev_prev_row = <<>> /\ prev_row = <<>> /\ curr_row = <<>>
  /\ osa_pc = "idle" /\ osa_ret = 0

NoLocals ==
  /\ tokens_x = <<>> /\ tokens_y = <<>> /\ min_distance = 0 /\ n_match = 0
  /\ indices = <<>> /\ best_tokens_x = <<>> /\ best_tokens_y = <<>>
  /\ best_distances = <<>> /\ frequencies = <<>>

IdleBatch ==
  /\ x = <<>> /\ y = <<>> /\ nchar_min = 0 /\ token = <<>> /\ token_freq = <<>>
  /\ pc = "idle" /\ i = 0 /\ token_map = <<>> /\ use_frequency_lookup = FALSE
  /\ result = <<>>
  /\ NoLocals

InitTok ==
  /\ name \in TokNames
  /\ tk_nchar_min \in TokMinLens
  /\ tk_pos = 1
  /\ tokens = <<>>
  /\ current_token = <<>>
  /\ tk_pc = "loop"
  /\ IdleOsa
  /\ IdleBatch

TokChar ==
  /\ tk_pc = "loop"
  /\ tk_pos <= Len(name)
  /\ LET st == TokenizeChar([tokens |-> tokens, current_token |-> current_token],
                            name[tk_pos], tk_nchar_min)
     IN  /\ tokens' = st.tokens
         /\ current_token' = st.current_token
  /\ tk_pos' = tk_pos + 1
  /\ UNCHANGED <<name, tk_nchar_min, tk_pc, osaVars, batchVars>>

TokReturn ==
  /\ tk_pc = "loop"
  /\ tk_pos > Len(name)
  /\ tokens' = TokenizeLast([tokens |-> tokens, current_token |-> current_token],
                            tk_nchar_min)
  /\ tk_pc' = "done"
  /\ UNCHANGED <<name, tk_nchar_min, tk_pos, current_token, osaVars, batchVars>>

NextTok == TokChar \/ TokReturn

SpecTok == InitTok /\ [][NextTok]_vars

(***************************************************************************)
(* One call of osa_distance, a row at a time.                              *)
(***************************************************************************)
OsaChars == {"a", "b", "c"}
OsaStrings == SeqsUpTo(OsaChars, MaxStrLen)

InitOsa ==
  /\ s1 \in OsaStrings
  /\ s2 \in OsaStrings
  /\ osa_i = 0
  /\ prev_prev_row = <<>> /\ prev_row = <<>> /\ curr_row = <<>>
  /\ osa_pc = "entry"
  /\ osa_ret = 0
  /\ IdleTok
  /\ IdleBatch

\* if (m == 0) return n; if (n == 0) return m;
OsaReturnEmpty ==
  /\ osa_pc = "entry"
  /\ Len(s1) = 0 \/ Len(s2) = 0
  /\ osa_ret' = (IF Len(s1) = 0 THEN Len(s2) ELSE Len(s1))
  /\ osa_pc' = "done"
  /\ UNCHANGED <<s1, s2, osa_i, prev_prev_row, prev_row, curr_row, tokVars, batchVars>>

\* The three rows are allocated and the first row initialised.
OsaAllocate ==
  /\ osa_pc = "entry"
  /\ Len(s1) # 0 /\ Len(s2) # 0
  /\ LET rows == OsaRows(Len(s2))
     IN  /\ prev_prev_row' = rows.prev_prev_row
         /\ prev_row' = rows.prev_row
         /\ curr_row' = rows.curr_row
  /\ osa_i' = 1
  /\ osa_pc' = "rows"
  /\ UNCHANGED <<s1, s2, osa_ret, tokVars, batchVars>>

OsaRow ==
  /\ osa_pc = "rows"
  /\ osa_i <= Len(s1)
  /\ LET rows == OsaOuter(s1, s2, osa_i,
                          [prev_prev_row |-> prev_prev_row, prev_row |-> prev_row,
                           curr_row |-> curr_row])
     IN  /\ prev_prev_row' = rows.prev_prev_row
         /\ prev_row' = rows.prev_row
         /\ curr_row' = rows.curr_row
  /\ osa_i' = osa_i + 1
  /\ UNCHANGED <<s1, s2, osa_pc, osa_ret, tokVars, batchVars>>

OsaReturn ==
  /\ osa_pc = "rows"
  /\ osa_i > Len(s1)
  /\ osa_ret' = prev_row[Len(s2) + 1]
  /\ osa_pc' = "done"
  /\ UNCHANGED <<s1, s2, osa_i, prev_prev_row, prev_row, curr_row, tokVars, batchVars>>

NextOsa == OsaReturnEmpty \/ OsaAllocate \/ OsaRow \/ OsaReturn

SpecOsa == InitOsa /\ [][NextOsa]_vars

(***************************************************************************)
(* One call of nmatch_cpp_tfreq.  pc is the position in the function:      *)
(* "entry" before the two length checks, "stopped" after Rcpp::stop,       *)
(* "pair" at the head of the loop over the pairs, "search" before the      *)
(* do-while loop over the permutations, "count", "lookup" and "store" in   *)
(* the rest of the loop body, "trapped" after an overflow that traps,      *)
(* "done" after return.  i is the loop index (0-based, as in the code).    *)
(***************************************************************************)
InitCall(names, maxn, keyseqs, freqseqs, minlens) ==
  /\ x \in SeqsUpTo(names, maxn)
  /\ y \in SeqsUpTo(names, maxn)
  /\ nchar_min \in minlens
  /\ token \in keyseqs
  /\ token_freq \in freqseqs
  /\ pc = "entry" /\ i = 0 /\ token_map = <<>> /\ use_frequency_lookup = FALSE
  /\ result = <<>>
  /\ NoLocals
  /\ IdleTok
  /\ IdleOsa

\* if (n != y.size()) Rcpp::stop(...)
StopLength ==
  /\ pc = "entry"
  /\ Len(x) # Len(y)
  /\ pc' = "stopped"
  /\ UNCHANGED <<argVars, i, token_map, use_frequency_lookup, result, pairVars,
                 tokVars, osaVars>>

\* if (token.size() != token_freq.size()) Rcpp::stop(...)
StopVocabulary ==
  /\ pc = "entry"
  /\ Len(x) = Len(y)
  /\ Len(token) # Len(token_freq)
  /\ pc' = "stopped"
  /\ UNCHANGED <<argVars, i, token_map, use_frequency_lookup, result, pairVars,
                 tokVars, osaVars>>

\* A variant of Setup that is not guarded by the check of the lengths of x and y.
Setup_NoLengthCheck ==
  /\ pc = "entry"
  /\ Len(token) = Len(token_freq)
  /\ result' = [r \in 1..Len(x) |-> ZeroRowOfResult]
  /\ use_frequency_lookup' = (Len(token) > 0)
  /\ token_map' = BuildTokenMap(token, token_freq, 1, <<>>)
  /\ i' = 0
  /\ pc' = "pair"
  /\ UNCHANGED <<argVars, pairVars, tokVars, osaVars>>

\* The output matrix is allocated and the hash map built.
Setup ==
  /\ pc = "entry"
  /\ Len(x) = Len(y)
  /\ Len(token) = Len(token_freq)
  /\ result' = [r \in 1..Len(x) |-> ZeroRowOfResult]
  /\ use_frequency_lookup' = (Len(token) > 0)
  /\ token_map' = BuildTokenMap(token, token_freq, 1, <<>>)
  /\ i' = 0
  /\ pc' = "pair"
  /\ UNCHANGED <<argVars, pairVars, tokVars, osaVars>>

\* A variant of PairIncomparable in which n_match and the best alignment are
\* not fresh for each pair (as if declared outside the loop).
PairIncomparable_KeepsLocals ==
  /\ pc = "pair"
  /\ i < Len(x)
  /\ LET tx == tokenize_name(x[i + 1], nchar_min)
         ty == tokenize_name(y[i + 1], nchar_min)
     IN  /\ Len(tx) = 0 \/ Len(ty) = 0
         /\ tokens_x' = tx
         /\ tokens_y' = ty
  /\ min_distance' = Incomparable
  /\ indices' = <<>>
  /\ frequencies' = <<>>
  /\ pc' = "lookup"
  /\ UNCHANGED <<argVars, i, token_map, use_frequency_lookup, result, n_match,
                 best_tokens_x, best_tokens_y, best_distances, tokVars, osaVars>>

\* The head of the loop body for a pair with an empty token sequence:
\* min_distance = 9999 and no search.
PairIncomparable ==
  /\ pc = "pair"
  /\ i < Len(x)
  /\ LET tx == tokenize_name(x[i + 1], nchar_min)
         ty == tokenize_name(y[i + 1], nchar_min)
     IN  /\ Len(tx) = 0 \/ Len(ty) = 0
         /\ tokens_x' = tx
         /\ tokens_y' = ty
  /\ min_distance' = Incomparable
  /\ n_match' = 0
  /\ indices' = <<>>
  /\ best_tokens_x' = <<>>
  /\ best_tokens_y' = <<>>
  /\ best_distances' = <<>>
  /\ frequencies' = <<>>
  /\ pc' = "lookup"
  /\ UNCHANGED <<argVars, i, token_map, use_frequency_lookup, result, tokVars, osaVars>>

\* The head of the loop body for a pair with two non-empty token sequences:
\* min_distance = INT_MAX and the indices of the longer sequence in order.
PairSearchBegin ==
  /\ pc = "pair"
  /\ i < Len(x)
  /\ LET tx == tokenize_name(x[i + 1], nchar_min)
         ty == tokenize_name(y[i + 1], nchar_min)
         st == SearchStart(tx, ty)
     IN  /\ Len(tx) # 0 /\ Len(ty) # 0
         /\ tokens_x' = tx
         /\ tokens_y' = ty
         /\ min_distance' = st.min_distance
         /\ indices' = st.indices
         /\ best_tokens_x' = st.best_tokens_x
         /\ best_tokens_y' = st.best_tokens_y
         /\ best_distances' = st.best_distances
  /\ n_match' = 0
  /\ frequencies' = <<>>
  /\ pc' = "search"
  /\ UNCHANGED <<argVars, i, token_map, use_frequency_lookup, result, tokVars, osaVars>>

\* The do-while loop over the permutations, from the first candidate to the
\* last one or to a total of 0: the best alignment it retains.
SearchPermutations ==
  /\ pc = "search"
  /\ \E st \in {SearchFrom(tokens_x, tokens_y,
                             [indices |-> indices, min_distance |-> min_distance,
                              best_tokens_x |-> best_tokens_x,
                              best_tokens_y |-> best_tokens_y,
                              best_distances |-> best_distances, searching |-> TRUE])} :
         /\ indices' = st.indices
         /\ min_distance' = st.min_distance
         /\ best_tokens_x' = st.best_tokens_x
         /\ best_tokens_y' = st.best_tokens_y
         /\ best_distances' = st.best_distances
  /\ pc' = "count"
  /\ UNCHANGED <<argVars, i, token_map, use_frequency_lookup, result,
                 tokens_x, tokens_y, n_match, frequencies, tokVars, osaVars>>

\* Count matches using the match_eval_token logic.
CountPair ==
  /\ pc = "count"
  /\ n_match' = CountMatches(best_tokens_x, best_tokens_y, best_distances)
  /\ pc' = "lookup"
  /\ UNCHANGED <<argVars, i, token_map, use_frequency_lookup, result,
                 tokens_x, tokens_y, min_distance, indices,
                 best_tokens_x, best_tokens_y, best_distances, frequencies,
                 tokVars, osaVars>>

\* Look up frequencies for best matching token pairs (up to 3).
LookupPair ==
  /\ pc = "lookup"
  /\ \E out \in LookupOutcomes(use_frequency_lookup, token_map,
                                best_tokens_x, best_tokens_y) :
       /\ frequencies' = out.frequencies
       /\ pc' = out.pc
  /\ UNCHANGED <<argVars, i, token_map, use_frequency_lookup, result,
                 tokens_x, tokens_y, min_distance, n_match, indices,
                 best_tokens_x, best_tokens_y, best_distances, tokVars, osaVars>>

\* Store results in matrix, and on to the next pair.
StorePair ==
  /\ pc = "store"
  /\ result' = [result EXCEPT ![i + 1] =
                  Row(Len(tokens_x), Len(tokens_y), n_match, min_distance, frequencies)]
  /\ i' = i + 1
  /\ pc' = "pair"
  /\ UNCHANGED <<argVars, token_map, use_frequency_lookup, pairVars, tokVars, osaVars>>

\* return result
Return ==
  /\ pc = "pair"
  /\ i >= Len(x)
  /\ pc' = "done"
  /\ UNCHANGED <<argVars, i, token_map, use_frequency_lookup, result, pairVars,
                 tokVars, osaVars>>

Next ==
  \/ StopLength \/ StopVocabulary \/ Setup
  \/ PairIncomparable \/ PairSearchBegin \/ SearchPermutations
  \/ CountPair \/ LookupPair \/ StorePair \/ Return

\* Tokens joined by single spaces into a name.
RECURSIVE JoinTokens(_)
JoinTokens(ts) ==
  IF Len(ts) = 0 THEN <<>>
  ELSE IF Len(ts) = 1 THEN ts[1]
  ELSE ts[1] \o <<" ">> \o JoinTokens(Tail(ts))

(***************************************************************************)
(* SpecPair: one pair of names of up to MaxTokens short tokens each, or of *)
(* one longer token, without a vocabulary.                                 *)
(***************************************************************************)
ShortTokens == {<<"a">>, <<"b">>, <<"a", "a">>, <<"a", "b">>, <<"b", "b">>}

LongTokens ==
  {<<"a", "b", "a", "b">>, <<"a", "b", "b", "a">>, <<"b", "b", "b", "b">>,
   <<"a", "b", "a", "b", "a">>, <<"a", "b", "a", "b", "a", "b">>,
   <<"a", "b", "a", "b", "a", "b", "a", "b", "a">>}

\* The sequences of up to n different elements of S.
DistinctSeqs(S, n) ==
  {q \in SeqsUpTo(S, n) : \A a, b \in 1..Len(q) : a # b => q[a] # q[b]}

\* Names of different short tokens, two names that repeat a token, and the
\* longer tokens as names of one token.
PairNames ==
  {JoinTokens(q) : q \in DistinctSeqs(ShortTokens, MaxTokens)}
    \cup {JoinTokens(<<<<"a">>, <<"a">>>>), JoinTokens(<<<<"a", "b">>, <<"b">>, <<"a", "b">>>>)}
    \cup LongTokens

InitPair == InitCall(PairNames, 1, {<<>>}, SeqsUpTo({0}, 1), {1})

SpecPair == InitPair /\ [][Next]_vars

(***************************************************************************)
(* SpecBatch: batches of up to MaxPairs pairs of a few names.              *)
(***************************************************************************)
BatchNames ==
  {<<"-">>, <<"a">>, <<"a", "b">>, <<"b", "a", " ", "a", "b">>}

InitBatch ==
  InitCall(BatchNames, MaxPairs, SeqsUpTo({<<"a", "b">>}, 1), SeqsUpTo({5}, 1), {1, 2})

SpecBatch == InitBatch /\ [][Next]_vars

(***************************************************************************)
(* SpecVocab: one pair of names under vocabularies of up to MaxVocab       *)
(* entries.                                                                *)
(***************************************************************************)
VocabKeys == {<<"a", "b">>, <<"b", "a">>}

\* 1073741824 = 2^30
FreqValues == {0, 5, 1073741824}

VocabNames ==
  {JoinTokens(q) : q \in {<<>>,
                          <<<<"a", "b">>>>,
                          <<<<"b", "a">>, <<"c", "c">>>>,
                          <<<<"a", "b">>, <<"b", "a">>, <<"a", "b">>>>,
                          <<<<"c", "c">>, <<"a", "b">>, <<"b", "a">>, <<"a", "b">>>>}}

InitVocab ==
  InitCall(VocabNames, 1, SeqsUpTo(VocabKeys, MaxVocab), SeqsUpTo(FreqValues, MaxVocab), {2})

SpecVocab == InitVocab /\ [][Next]_vars

(***************************************************************************)
(* Properties of tokenize_name.                                            *)
(***************************************************************************)
\* The maximal runs of non-delimiter characters of str, as <<first, last>>.
Runs(str) ==
  {r \in (1..Len(str)) \X (1..Len(str)) :
     /\ r[1] <= r[2]
     /\ \A k \in r[1]..r[2] : str[k] \notin Delimiters
     /\ r[1] = 1 \/ str[r[1] - 1] \in Delimiters
     /\ r[2] = Len(str) \/ str[r[2] + 1] \in Delimiters}

\* The runs of length >= n, in left-to-right order, as strings.
RunTokens(str, n) ==
  LET kept == {r \in Runs(str) : r[2] - r[1] + 1 >= n}
      nth(k) == CHOOSE r \in kept : Cardinality({q \in kept : q[1] < r[1]}) = k - 1
  IN  [k \in 1..Cardinality(kept) |-> SubSeq(str, nth(k)[1], nth(k)[2])]

\* C7: for every string and every integer min_length, tokenize_name returns, in
\* left-to-right order, exactly the maximal runs of non-delimiter characters
\* whose length is >= min_length; no token holds a delimiter or is shorter than
\* min_length, and a string without such a run yields the empty sequence.
C7_TokensAreTheLongRuns ==
  tk_pc = "done" =>
    /\ tokens = RunTokens(name, tk_nchar_min)
    /\ \A k \in 1..Len(tokens) :
         /\ Len(tokens[k]) >= tk_nchar_min
         /\ \A p \in 1..Len(tokens[k]) : tokens[k][p] \notin Delimiters
    /\ (\A p \in 1..Len(name) : name[p] \in Delimiters) => tokens = <<>>

\* The same statement for the minimum lengths that are not negative.
TokensAreTheLongRunsFromZero ==
  (tk_pc = "done" /\ tk_nchar_min >= 0) =>
    /\ tokens = RunTokens(name, tk_nchar_min)
    /\ \A k \in 1..Len(tokens) :
         /\ Len(tokens[k]) >= tk_nchar_min
         /\ \A p \in 1..Len(tokens[k]) : tokens[k][p] \notin Delimiters
    /\ (\A p \in 1..Len(name) : name[p] \in Delimiters) => tokens = <<>>

(***************************************************************************)
(* Properties of osa_distance.                                             *)
(***************************************************************************)
\* The full-matrix Optimal String Alignment recurrence: insertion, deletion,
\* substitution and the swap of two adjacent characters cost 1 each.
RECURSIVE FullOsa(_, _, _, _)
FullOsa(a, b, ri, j) ==
  IF ri = 0 THEN j
  ELSE IF j = 0 THEN ri
  ELSE LET std == Min3(FullOsa(a, b, ri - 1, j) + 1,
                       FullOsa(a, b, ri, j - 1) + 1,
                       FullOsa(a, b, ri - 1, j - 1) + (IF a[ri] = b[j] THEN 0 ELSE 1))
       IN  IF ri > 1 /\ j > 1 /\ a[ri] = b[j - 1] /\ a[ri - 1] = b[j]
           THEN Min2(std, FullOsa(a, b, ri - 2, j - 2) + 1)
           ELSE std

FullOsaRow(a, b, ri) == [j \in 1..(Len(b) + 1) |-> FullOsa(a, b, ri, j - 1)]

\* C8: osa_distance(s1, s2) is a non-negative integer, equals
\* osa_distance(s2, s1), and is 0 if and only if s1 = s2 (empty strings included).
C8_OsaSymmetricZeroIffEqual ==
  osa_pc = "done" =>
    /\ osa_ret \in Nat
    /\ osa_ret = osa_distance(s2, s1)
    /\ (osa_ret = 0) <=> (s1 = s2)

C8_Witness ==
  /\ osa_pc = "done"
  /\ Len(s1) = 2 /\ Len(s2) = 3 /\ s1 # SubSeq(s2, 1, 2)
  /\ osa_ret = 2

\* C9: the three rolling rows return the value of the full-matrix OSA recurrence
\* with unit costs; after the rotation that ends iteration i, prev_prev_row and
\* prev_row are rows i-1 and i of that matrix; osa("ab", "ba") = 1.
C9_RollingRowsAreTheFullMatrix ==
  /\ osa_pc = "rows" =>
       /\ prev_row = FullOsaRow(s1, s2, osa_i - 1)
       /\ osa_i >= 2 => prev_prev_row = FullOsaRow(s1, s2, osa_i - 2)
  /\ osa_pc = "done" => osa_ret = FullOsa(s1, s2, Len(s1), Len(s2))
  /\ (osa_pc = "done" /\ s1 = <<"a", "b">> /\ s2 = <<"b", "a">>) => osa_ret = 1

C9_Witness ==
  /\ osa_pc = "done"
  /\ s1 = <<"a", "b", "c">> /\ s2 = <<"b", "a", "c">>
  /\ osa_ret = 1

(***************************************************************************)
(* Properties of nmatch_cpp_tfreq.                                         *)
(***************************************************************************)
\* The arguments pass the two length checks.
LengthsAgree == Len(x) = Len(y) /\ Len(token) = Len(token_freq)

\* The token sequences of pair r (1-based) of the batch.
TokensX(r) == tokenize_name(x[r], nchar_min)
TokensY(r) == tokenize_name(y[r], nchar_min)

\* The one-to-one assignments of the positions of a sequence of m tokens to
\* positions of a sequence of k tokens.
Assignments(m, k) ==
  {f \in [1..m -> 1..k] : \A a, b \in 1..m : a # b => f[a] # f[b]}

RECURSIVE SumTo(_, _)
SumTo(d, k) == IF k = 0 THEN 0 ELSE d[k] + SumTo(d, k - 1)

\* The sum of the OSA distances of the pairs an assignment makes.
AssignmentCost(tx, ty, f) ==
  SumTo([j \in 1..Len(f) |->
           IF Len(tx) <= Len(ty) THEN osa_distance(tx[j], ty[f[j]])
                                 ELSE osa_distance(tx[f[j]], ty[j])],
        Len(f))

\* The cheapest assignment of the shorter sequence into the longer one.
CheapestAssignment(tx, ty) ==
  LET costs == {AssignmentCost(tx, ty, f) :
                  f \in Assignments(Min2(Len(tx), Len(ty)), Max2(Len(tx), Len(ty)))}
  IN  CHOOSE c \in costs : \A d \in costs : c <= d

\* ty holds the tokens of tx in some order.
IsReordering(tx, ty) ==
  /\ Len(tx) = Len(ty)
  /\ \E f \in Assignments(Len(tx), Len(tx)) : \A j \in 1..Len(tx) : ty[f[j]] = tx[j]

\* C1: for a pair with two non-empty token sequences the reported total distance
\* is the minimum, over the one-to-one assignments of the shorter sequence into
\* the longer one, of the summed OSA distances (pruning and the stop at 0 miss
\* nothing); a sequence against a reordering of itself has total distance 0.
C1_TotalIsCheapestAssignment ==
  pc = "done" =>
    \A r \in 1..Len(x) :
      LET tx == TokensX(r)
          ty == TokensY(r)
      IN  (Len(tx) >= 1 /\ Len(ty) >= 1) =>
            /\ result[r].dist_total = CheapestAssignment(tx, ty)
            /\ IsReordering(tx, ty) => result[r].dist_total = 0

\* A pair of three tokens against a reordering of them, found at distance 0.
C1_Witness ==
  /\ pc = "done" /\ Len(x) = 1
  /\ Len(tokens_x) = 3 /\ tokens_x # tokens_y /\ IsReordering(tokens_x, tokens_y)
  /\ result[1].dist_total = 0

\* A pair whose cheapest alignment is not the first candidate and costs more
\* than 0, so that later candidates were cut short by the best total.
C1_PrunedSearchReached ==
  /\ pc = "done" /\ Len(x) = 1
  /\ Len(tokens_x) = 2 /\ Len(tokens_y) = 3
  /\ result[1].dist_total = 1
  /\ best_tokens_y[1] = tokens_y[3]

\* The classifier as the table states it.
Classify(len_x, len_y, d) ==
  LET len_max == IF len_x >= len_y THEN len_x ELSE len_y
  IN  \/ (len_max <= 3 /\ d = 0)
      \/ (len_max = 4 /\ d <= 1)
      \/ (5 <= len_max /\ len_max <= 8 /\ d <= 2)
      \/ (len_max >= 9 /\ d <= 3)

\* C6: for a pair with non-empty token sequences n_match is the number of pairs
\* (tx, ty, d) of the retained best alignment that the classifier table accepts,
\* d being the OSA distance of that pair; so 0 <= n_match <= k_align.
C6_MatchCountFollowsTable ==
  /\ (pc \in {"lookup", "store", "done"} /\ Len(tokens_x) >= 1 /\ Len(tokens_y) >= 1) =>
       /\ Len(best_tokens_x) = Min2(Len(tokens_x), Len(tokens_y))
       /\ Len(best_tokens_y) = Len(best_tokens_x)
       /\ Len(best_distances) = Len(best_tokens_x)
       /\ \A j \in 1..Len(best_tokens_x) :
            best_distances[j] = osa_distance(best_tokens_x[j], best_tokens_y[j])
       /\ n_match = Cardinality({j \in 1..Len(best_tokens_x) :
                       Classify(Len(best_tokens_x[j]), Len(best_tokens_y[j]),
                                best_distances[j])})
       /\ 0 <= n_match /\ n_match <= Min2(Len(tokens_x), Len(tokens_y))
  /\ (pc = "done" /\ Len(x) >= 1) =>
       /\ result[Len(x)].n_match = n_match
       /\ result[Len(x)].k_align = Min2(Len(tokens_x), Len(tokens_y))

\* Two tokens of four characters one transposition apart: a match.
C6_Witness ==
  /\ pc = "done" /\ Len(x) = 1
  /\ Len(tokens_x) = 1 /\ Len(tokens_y) = 1
  /\ Len(tokens_x[1]) = 4 /\ Len(tokens_y[1]) = 4
  /\ best_distances = <<1>>
  /\ result[1].n_match = 1

\* The row of the pair with its two names exchanged.
SwappedRow(r) == PairRow(y[r], x[r], nchar_min, use_frequency_lookup, token_map)

\* C10 as stated: the row of (a, b) and the row of (b, a) have the same k_align,
\* total distance and n_match, with k_x and k_y exchanged.
C10_RowIsSymmetric ==
  pc = "done" =>
    \A r \in 1..Len(x) :
      LET swapped == SwappedRow(r)
      IN  /\ result[r].k_x = swapped.k_y
          /\ result[r].k_y = swapped.k_x
          /\ result[r].k_align = swapped.k_align
          /\ result[r].dist_total = swapped.dist_total
          /\ result[r].n_match = swapped.n_match

\* C10, amended: k_x and k_y are exchanged, k_align and the total distance are
\* the same, and n_match is the same whenever the two token counts differ or
\* are at most 2.
C10_RowIsSymmetricButForTies ==
  pc = "done" =>
    \A r \in 1..Len(x) :
      LET swapped == SwappedRow(r)
      IN  /\ result[r].k_x = swapped.k_y
          /\ result[r].k_y = swapped.k_x
          /\ result[r].k_align = swapped.k_align
          /\ result[r].dist_total = swapped.dist_total
          /\ (result[r].k_x # result[r].k_y \/ result[r].k_x <= 2) =>
               result[r].n_match = swapped.n_match

\* A pair of two tokens against three, with a match.
C10_Witness ==
  /\ pc = "done" /\ Len(x) = 1
  /\ result[1].k_x = 3 /\ result[1].k_y = 2
  /\ result[1].n_match = 1 /\ result[1].dist_total = 1

\* The row of a pair with an empty token sequence.
IncomparableRow(kx, ky) ==
  [k_x |-> kx, k_y |-> ky, k_align |-> 0, n_match |-> 0, dist_total |-> 9999,
   freq1 |-> NA_INTEGER, freq2 |-> NA_INTEGER, freq3 |-> NA_INTEGER]

\* The row the pair gets in a batch of its own.
AloneRow(r) ==
  PairRow(x[r], y[r], nchar_min, Len(token) > 0, BuildTokenMap(token, token_freq, 1, <<>>))

\* C2: a pair with an empty token sequence raises no error and gets k_align = 0,
\* n_match = 0, total distance 9999 and three missing frequencies; every other
\* pair of the batch gets the row it gets without that pair.
C2_IncomparablePairsDoNotInterrupt ==
  /\ LengthsAgree => pc # "stopped"
  /\ pc = "done" =>
       /\ Len(result) = Len(x)
       /\ \A r \in 1..Len(x) :
            IF Len(TokensX(r)) = 0 \/ Len(TokensY(r)) = 0
            THEN result[r] = IncomparableRow(Len(TokensX(r)), Len(TokensY(r)))
            ELSE result[r] = AloneRow(r)

\* A batch whose first pair is comparable, with a frequency, and whose second
\* pair has an empty side.
C2_Witness ==
  /\ pc = "done" /\ Len(x) = 2
  /\ result[1].n_match = 1 /\ result[1].freq1 = 10
  /\ result[2].k_x = 2 /\ result[2].k_y = 0 /\ result[2].dist_total = 9999

\* C3: when x and y differ in length, or token and token_freq do, the call stops
\* with an error before any pair is tokenized, aligned, classified or annotated,
\* and no output row exists.
C3_MismatchStopsBeforeAnyPair ==
  /\ ~LengthsAgree =>
       /\ pc \in {"entry", "stopped"}
       /\ i = 0 /\ result = <<>> /\ token_map = <<>>
       /\ NoLocals
       /\ pc = "entry" => (ENABLED (StopLength \/ StopVocabulary) /\ ~ENABLED Setup)
  /\ pc = "stopped" => ~LengthsAgree

\* A call stopped for its vocabulary, with two pairs waiting.
C3_Witness ==
  /\ pc = "stopped" /\ Len(x) = 2 /\ Len(y) = 2
  /\ Len(token) # Len(token_freq)

\* The key sequence holds a key twice.
HasRepeatedKey == \E a, b \in 1..Len(token) : a # b /\ token[a] = token[b]

\* The last position of a key in the key sequence.
LastIndex(key) == SetMax({k \in 1..Len(token) : token[k] = key})

\* C4 as stated: a vocabulary with a repeated key (and as many values as keys)
\* is rejected before any pair is processed and no row is produced.
C4_RepeatedKeyIsRejected ==
  (HasRepeatedKey /\ LengthsAgree) =>
    /\ pc \in {"entry", "stopped"}
    /\ i = 0 /\ result = <<>>

\* C4, amended: the keys are not checked for repeats; such a call is never
\* stopped, every pair gets its row, and the table holds for a repeated key the
\* value of its last occurrence.
C4_RepeatedKeyTakesLastValue ==
  (HasRepeatedKey /\ LengthsAgree) =>
    /\ pc # "stopped"
    /\ pc = "entry" => ENABLED Setup
    /\ pc # "entry" =>
         /\ DOMAIN token_map = {token[k] : k \in 1..Len(token)}
         /\ \A k \in 1..Len(token) : token_map[token[k]] = token_freq[LastIndex(token[k])]
    /\ pc = "done" =>
         /\ Len(result) = Len(x)
         /\ \A r \in 1..Len(x) :
              (Len(TokensX(r)) >= 1 /\ Len(TokensY(r)) >= 1
                 /\ TokensX(r)[1] = TokensY(r)[1] /\ TokensX(r)[1] \in DOMAIN token_map
                 /\ token_freq[LastIndex(TokensX(r)[1])] = 5)
                => result[r].freq1 = 10

\* The key "ab" given twice, with 0 and then 5, and a pair that reads it.
C4_Witness ==
  /\ pc = "done" /\ Len(x) = 1
  /\ token = <<<<"a", "b">>, <<"a", "b">>>> /\ token_freq = <<0, 5>>
  /\ result[1].freq1 = 10

\* Slot p of the current pair as the claim describes it: the sum of the two
\* frequencies when the p-th aligned pair exists and both tokens are keys,
\* and missing otherwise.
SlotAsClaimed(p, v) ==
  IF /\ p <= Len(best_tokens_x)
     /\ best_tokens_x[p] \in DOMAIN token_map
     /\ best_tokens_y[p] \in DOMAIN token_map
  THEN v # NA_INTEGER /\ v - token_map[best_tokens_x[p]] = token_map[best_tokens_y[p]]
  ELSE v = NA_INTEGER

\* C5: with a vocabulary, slot p of a pair is the sum of the two frequencies of
\* the p-th aligned pair when that pair exists and both tokens are keys, and is
\* missing in every other case, and only then.
C5_SlotsAreSumsOrMissing ==
  (pc = "done" /\ Len(x) = 1 /\ Len(token) > 0) =>
    /\ SlotAsClaimed(1, result[1].freq1)
    /\ SlotAsClaimed(2, result[1].freq2)
    /\ SlotAsClaimed(3, result[1].freq3)

\* The same statement for the pairs whose frequency sums fit an int.
SumFits(p) ==
  (/\ p <= Len(best_tokens_x)
   /\ best_tokens_x[p] \in DOMAIN token_map
   /\ best_tokens_y[p] \in DOMAIN token_map)
    => token_map[best_tokens_x[p]] <= INT_MAX - token_map[best_tokens_y[p]]

SlotsAreSumsOrMissingWithinInt ==
  (pc = "done" /\ Len(x) = 1 /\ Len(token) > 0 /\ \A p \in 1..3 : SumFits(p)) =>
    /\ SlotAsClaimed(1, result[1].freq1)
    /\ SlotAsClaimed(2, result[1].freq2)
    /\ SlotAsClaimed(3, result[1].freq3)

====
